---- MODULE Spec2Model ----
(***************************************************************************)
(* Snapshot-and-recovery subsystem of the Notion MCP server:               *)
(*   src/src/backup-utils.ts  backupPage, listPageBackups,                 *)
(*                            restoreFromBackup, cleanupOldBackups         *)
(*   src/src/notion-api.ts    fetchPageContent, fetchAllBlocks,            *)
(*                            updatePage, deletePage, validateBlocks       *)
(*   src/src/index.ts         update-page, delete-page, manage-backups     *)
(*                                                                         *)
(* Strings the code inspects character by character (file names, page     *)
(* ids, timestamps) are sequences of one-character strings.  Optional      *)
(* values (a field that may be absent, null) are sequences of length 0     *)
(* or 1.  The clock counts milliseconds; a day has DayMs of them.          *)
(***************************************************************************)
EXTENDS Integers, Sequences, FiniteSets, TLC

VARIABLES
    remote,   \* the workspace behind the Gateway: page id -> page
    nextId,   \* next block identifier the Gateway assigns
    files,    \* BACKUP_DIR: file name -> [content, mtime, complete]
    now,      \* the clock, in milliseconds
    req,      \* request slot -> the tool request in flight in it
    out,      \* result of the last call made on its own (list, cleanup,
              \* a materialization, a capture as a whole)
    config    \* CONFIG, read from the environment when the server starts

vars == <<remote, nextId, files, now, req, out, config>>

(***************************************************************************)
(* Bounds of the model.                                                    *)
(***************************************************************************)
MaxTime == 3            \* the clock stops at MaxTime
DayMs == 2              \* milliseconds per day (24*60*60*1000, scaled)
MaxFiles == 3           \* no capture starts with MaxFiles files stored
GatewayPageLimit == 2   \* most items the Gateway returns per listing
MaxId == 9              \* no request starts once nextId exceeds MaxId
MaxKeep == 2            \* largest finite maxBackupsPerPage / maxBackupAge
MaxTreeDepth == 4       \* most levels of blocks under a page of SpecTree
MaxCalls == 4           \* most listing calls one loop of SpecDrain makes

Min(a, b) == IF a < b THEN a ELSE b
Range(s) == {s[i] : i \in 1..Len(s)}

\* A policy value above every count and every age of the model (Infinity).
Unlimited == (MaxTime + MaxFiles + MaxKeep + 1) * (DayMs + 1)

(***************************************************************************)
(* Strings.                                                                *)
(***************************************************************************)
\* UTF-16 code unit of a character: the order Array.prototype.sort uses.
Code(c) ==
    CASE c = "-" -> 45 [] c = "." -> 46
      [] c = "0" -> 48 [] c = "1" -> 49 [] c = "2" -> 50 [] c = "3" -> 51
      [] c = "4" -> 52 [] c = "5" -> 53 [] c = "6" -> 54 [] c = "7" -> 55
      [] c = "8" -> 56 [] c = "9" -> 57 [] c = ":" -> 58
      [] c = "T" -> 84 [] c = "Z" -> 90 [] c = "_" -> 95
      [] c = "a" -> 97 [] c = "b" -> 98 [] c = "e" -> 101 [] c = "g" -> 103
      [] c = "j" -> 106 [] c = "n" -> 110 [] c = "o" -> 111
      [] c = "p" -> 112 [] c = "s" -> 115

Digit(n) ==
    CASE n = 0 -> "0" [] n = 1 -> "1" [] n = 2 -> "2" [] n = 3 -> "3"
      [] n = 4 -> "4" [] n = 5 -> "5" [] n = 6 -> "6" [] n = 7 -> "7"
      [] n = 8 -> "8" [] n = 9 -> "9"

\* a < b as JavaScript compares strings
StrLess(a, b) ==
    LET differ == {i \in 1..Min(Len(a), Len(b)) : a[i] # b[i]}
    IN  IF differ = {} THEN Len(a) < Len(b)
        ELSE LET i == CHOOSE x \in differ : \A y \in differ : x <= y
             IN  Code(a[i]) < Code(b[i])

startsWith(s, prefix) ==
    Len(s) >= Len(prefix) /\ SubSeq(s, 1, Len(prefix)) = prefix

endsWith(s, suffix) ==
    Len(s) >= Len(suffix) /\ SubSeq(s, Len(s) - Len(suffix) + 1, Len(s)) = suffix

\* String.prototype.replace(/from/g, to) for a one-character pattern
ReplaceAll(s, from, to) ==
    [i \in 1..Len(s) |-> IF s[i] = from THEN to ELSE s[i]]

\* Array.prototype.sort() of an array of distinct strings, given as a set
RECURSIVE SortStrings(_)
SortStrings(S) ==
    IF S = {} THEN <<>>
    ELSE LET m == CHOOSE x \in S : \A y \in S : x = y \/ StrLess(x, y)
         IN  <<m>> \o SortStrings(S \ {m})

Reverse(s) == [i \in 1..Len(s) |-> s[Len(s) + 1 - i]]

\* Date.prototype.toISOString: "YYYY-MM-DDTHH:mm:ss.sssZ", here one digit for
\* the date (the day number) and one for the time of day, fixed width.
toISOString(t) ==
    <<Digit(t \div DayMs), "-", "0", "1", "T", Digit(t % DayMs), ":", "0", "0", "Z">>

PagePrefix == <<"p", "a", "g", "e", "_">>
JsonSuffix == <<".", "j", "s", "o", "n">>

(***************************************************************************)
(* The Remote Content Gateway (the Notion client).  A page is              *)
(* [properties, archived, blocks]; a block is [id, type, text, children],  *)
(* text standing for the payload stored under the block's type key.        *)
(***************************************************************************)
PageA == <<"a">>
PageAB == <<"a", "_", "b">>     \* an id that extends PageA by "_b"
Pages == {PageA, PageAB}

Blk(id, type, text, children) ==
    [id |-> id, type |-> type, text |-> text, children |-> children]

\* notion.blocks.children.list on a block or page whose children are `all`:
\* one listing page, from position `cursor` (0: from the start), of at most
\* Min(page_size, GatewayPageLimit) items
ListChildren(all, cursor, page_size) ==
    LET from == IF cursor = 0 THEN 1 ELSE cursor
        size == Min(page_size, GatewayPageLimit)
        to   == Min(from + size - 1, Len(all))
    IN  [results     |-> SubSeq(all, from, to),
         has_more    |-> to < Len(all),
         next_cursor |-> IF to < Len(all) THEN to + 1 ELSE 0]

DEFAULT_PAGE_SIZE == 100

(***************************************************************************)
(* notion-api.ts: the Tree Materializer.                                   *)
(***************************************************************************)
\* (mutant of DrainChildren) the first listing page only
DrainChildren_FirstPage(all, cursor) ==
    ListChildren(all, cursor, DEFAULT_PAGE_SIZE).results

\* the while (hasMore) loop of fetchAllBlocks
RECURSIVE DrainChildren(_, _)
DrainChildren(all, cursor) ==
    LET response == ListChildren(all, cursor, DEFAULT_PAGE_SIZE)
    IN  IF response.has_more
        THEN response.results \o DrainChildren(all, response.next_cursor)
        ELSE response.results

MAX_DEPTH_DEFAULT == 3

\* parseInt(process.env.MAX_BLOCK_DEPTH || "3", 10)
MAX_BLOCK_DEPTH_DEFAULT == 3

\* (mutant of atDepthLimit) the guard lets one more level through
atDepthLimit_Late(maxDepth, currentDepth) == currentDepth > maxDepth

\* if (currentDepth >= maxDepth) return []
atDepthLimit(maxDepth, currentDepth) == currentDepth >= maxDepth

RECURSIVE fetchAllBlocks(_, _, _)
fetchAllBlocks(all, maxDepth, currentDepth) ==
    IF atDepthLimit(maxDepth, currentDepth) THEN <<>>
    ELSE LET blocks == DrainChildren(all, 0)
         IN  [i \in 1..Len(blocks) |->
                [id           |-> blocks[i].id,
                 type         |-> blocks[i].type,
                 has_children |-> blocks[i].children # <<>>,
                 text         |-> blocks[i].text,
                 children     |->
                    IF blocks[i].children # <<>>
                    THEN <<fetchAllBlocks(blocks[i].children, maxDepth,
                                          currentDepth + 1)>>
                    ELSE <<>>]]

\* the start_cursor values the while (hasMore) loop passes (0: none)
RECURSIVE DrainCursors(_, _)
DrainCursors(all, cursor) ==
    LET response == ListChildren(all, cursor, DEFAULT_PAGE_SIZE)
    IN  {cursor} \cup IF response.has_more
                      THEN DrainCursors(all, response.next_cursor)
                      ELSE {}

\* the notion.blocks.children.list calls fetchAllBlocks makes when none
\* fails, each with the block listed (0: the page), the cursor and the
\* currentDepth of the invocation making it
RECURSIVE listingCalls(_, _, _, _)
listingCalls(all, blockId, maxDepth, currentDepth) ==
    IF atDepthLimit(maxDepth, currentDepth) THEN {}
    ELSE LET blocks == DrainChildren(all, 0)
         IN  {[block_id |-> blockId, start_cursor |-> c, depth |-> currentDepth] :
                 c \in DrainCursors(all, 0)}
             \cup UNION {listingCalls(blocks[i].children, blocks[i].id,
                                      maxDepth, currentDepth + 1) :
                            i \in {j \in 1..Len(blocks) : blocks[j].children # <<>>}}

\* fetchAllBlocks when the listings in `failing` ([block_id, start_cursor])
\* throw: <<>> when the error reaches the caller (every catch rethrows),
\* else <<the processed blocks>>
RECURSIVE fetchAllBlocks_try(_, _, _, _, _)
fetchAllBlocks_try(all, blockId, maxDepth, currentDepth, failing) ==
    IF atDepthLimit(maxDepth, currentDepth) THEN << <<>> >>
    ELSE IF \E c \in DrainCursors(all, 0) :
                [block_id |-> blockId, start_cursor |-> c] \in failing
    THEN <<>>
    ELSE LET blocks == DrainChildren(all, 0)
             kids == [i \in 1..Len(blocks) |->
                        IF blocks[i].children # <<>>
                        THEN fetchAllBlocks_try(blocks[i].children, blocks[i].id,
                                                maxDepth, currentDepth + 1, failing)
                        ELSE << <<>> >>]
         IN  IF \E i \in 1..Len(blocks) : kids[i] = <<>> THEN <<>>
             ELSE <<[i \in 1..Len(blocks) |->
                      [id           |-> blocks[i].id,
                       type         |-> blocks[i].type,
                       has_children |-> blocks[i].children # <<>>,
                       text         |-> blocks[i].text,
                       children     |-> IF blocks[i].children # <<>>
                                        THEN <<kids[i][1]>> ELSE <<>>]]>>

\* (mutant of fetchPageContent_try) a failed listing yields a page with
\* no blocks
fetchPageContent_try_Partial(rem, pageId, retrieveOk, failing) ==
    LET blocks == fetchAllBlocks_try(rem[pageId].blocks, 0, MAX_DEPTH_DEFAULT,
                                     0, failing)
    IN  IF ~retrieveOk THEN <<>>
        ELSE <<[page   |-> [id |-> pageId,
                            properties |-> rem[pageId].properties],
                blocks |-> IF blocks = <<>> THEN <<>> ELSE blocks[1]]>>

\* fetchPageContent when pages.retrieve fails (~retrieveOk) or listings
\* fail: <<>> when it throws, else <<the page content>>
fetchPageContent_try(rem, pageId, retrieveOk, failing) ==
    LET blocks == fetchAllBlocks_try(rem[pageId].blocks, 0, MAX_DEPTH_DEFAULT,
                                     0, failing)
    IN  IF ~retrieveOk \/ blocks = <<>> THEN <<>>
        ELSE <<[page   |-> [id |-> pageId,
                            properties |-> rem[pageId].properties],
                blocks |-> blocks[1]]>>

fetchPageContent(rem, pageId) ==
    [page   |-> [id |-> pageId, properties |-> rem[pageId].properties],
     blocks |-> fetchAllBlocks(rem[pageId].blocks, MAX_DEPTH_DEFAULT, 0)]

(***************************************************************************)
(* backup-utils.ts: the Snapshot Store.                                    *)
(***************************************************************************)
\* new Date().toISOString().replace(/:/g, "-")
backupTimestamp(t) == ReplaceAll(toISOString(t), ":", "-")

\* `page_${pageId}_${timestamp}.json`
backupFilename(pageId, timestamp) ==
    PagePrefix \o pageId \o <<"_">> \o timestamp \o JsonSuffix

\* fs.writeFileSync(backupPath, JSON.stringify(pageContent)): the file is
\* created or truncated, then the text is written to it
writeFileSync(fs, name, content, t) ==
    [f \in DOMAIN fs \cup {name} |->
        IF f = name THEN [content |-> content, mtime |-> t, complete |-> TRUE]
        ELSE fs[f]]

\* fs.writeFileSync that throws after the file was opened (ENOSPC, EIO):
\* the file is left under its name with a prefix of the text; `content`
\* records what was being written
writeFileSync_torn(fs, name, content, t) ==
    [f \in DOMAIN fs \cup {name} |->
        IF f = name THEN [content |-> content, mtime |-> t, complete |-> FALSE]
        ELSE fs[f]]

\* how a call of fs.writeFileSync can end: the whole text written; an
\* exception before the file is opened (EACCES, ENOENT); an exception
\* part-way
WriteOutcomes == {"written", "failed", "torn"}

\* fs.unlinkSync(backupPath)
unlinkSync(fs, name) == [f \in DOMAIN fs \ {name} |-> fs[f]]

\* filename.match(/page_(.+)_(.+)\.json/): the leftmost match, both groups
\* greedy; <<>> when there is none, else <<[pageId, timestamp]>>
RegexMatch(f) ==
    LET n  == Len(f)
        \* where "\.json" can match: the last place is the one the greedy
        \* second group reaches
        Ks == {k \in 1..(n - 5) : SubSeq(f, k + 1, k + 5) = JsonSuffix}
        k  == CHOOSE x \in Ks : \A y \in Ks : x >= y
        \* where the "_" between the groups can match, one character at
        \* least on either side
        Js == IF Ks = {} THEN {}
              ELSE {j \in 1..(k - 2) : f[j + 1] = "_"}
        Is == {i \in 1..(n - 4) :
                 /\ SubSeq(f, i, i + 4) = PagePrefix
                 /\ \E j \in Js : j >= i + 5}
    IN  IF Is = {} THEN <<>>
        ELSE LET i == CHOOSE x \in Is : \A y \in Is : x <= y
                 j == CHOOSE x \in Js : \A y \in Js : x >= y
             IN  <<[pageId    |-> SubSeq(f, i + 5, j),
                    timestamp |-> SubSeq(f, j + 2, k)]>>

listPageBackups(fs, pageId) ==
    LET pageBackups ==
            {file \in DOMAIN fs :
                /\ startsWith(file, PagePrefix \o pageId \o <<"_">>)
                /\ endsWith(file, JsonSuffix)}
        sorted == Reverse(SortStrings(pageBackups))
        parsed == SelectSeq(sorted, LAMBDA file : RegexMatch(file) # <<>>)
    IN  [i \in 1..Len(parsed) |->
            [pageId    |-> RegexMatch(parsed[i])[1].pageId,
             timestamp |-> ReplaceAll(RegexMatch(parsed[i])[1].timestamp, "-", ":"),
             filename  |-> parsed[i],
             created   |-> fs[parsed[i]].mtime]]

(***************************************************************************)
(* backup-utils.ts: the Retention Manager.  A run carries                  *)
(* [fs, ok, log, err]: the directory, whether no exception was thrown yet, *)
(* the files console.log reported as deleted, and the exception the catch  *)
(* block logged, if any.                                                   *)
(***************************************************************************)
\* page ids in the order Object.entries(backupsByPage) yields them: the
\* order in which a file of each page first appears in backupFiles
RECURSIVE GroupOrder(_, _)
GroupOrder(backupFiles, seen) ==
    IF backupFiles = <<>> THEN <<>>
    ELSE LET pageId == RegexMatch(Head(backupFiles))[1].pageId
         IN  IF pageId \in seen THEN GroupOrder(Tail(backupFiles), seen)
             ELSE <<pageId>> \o GroupOrder(Tail(backupFiles), seen \cup {pageId})

\* backupsToDelete.forEach(unlinkSync): `faults` are the files whose unlink
\* throws; an exception ends the run
RECURSIVE DeleteEach(_, _, _)
DeleteEach(run, backupsToDelete, faults) ==
    IF ~run.ok \/ backupsToDelete = <<>> THEN run
    ELSE LET file == Head(backupsToDelete)
         IN  IF file \in faults
             THEN [run EXCEPT !.ok = FALSE,
                              !.err = <<[code |-> "EPERM", file |-> file]>>]
             ELSE DeleteEach([run EXCEPT !.fs = unlinkSync(run.fs, file),
                                         !.log = Append(run.log, file)],
                             Tail(backupsToDelete), faults)

\* (mutant of backupsToDelete) the slice is one file longer
backupsToDelete_OneMore(pageBackups, maxBackupsPerPage) ==
    IF Len(pageBackups) >= maxBackupsPerPage
    THEN SubSeq(pageBackups, 1,
                Min(Len(pageBackups),
                    Len(pageBackups) - maxBackupsPerPage + 1))
    ELSE <<>>

\* (mutant of backupsToDelete) the slice is taken from the newest end
backupsToDelete_Newest(pageBackups, maxBackupsPerPage) ==
    IF Len(pageBackups) > maxBackupsPerPage
    THEN SubSeq(pageBackups, maxBackupsPerPage + 1, Len(pageBackups))
    ELSE <<>>

\* pageBackups.slice(0, pageBackups.length - maxBackupsPerPage) of the
\* sorted group, when it is longer than maxBackupsPerPage
backupsToDelete(pageBackups, maxBackupsPerPage) ==
    IF Len(pageBackups) > maxBackupsPerPage
    THEN SubSeq(pageBackups, 1, Len(pageBackups) - maxBackupsPerPage)
    ELSE <<>>

\* Object.entries(backupsByPage).forEach: keep the most recent per page
RECURSIVE CountPass(_, _, _, _, _)
CountPass(run, groups, backupFiles, maxBackupsPerPage, faults) ==
    IF ~run.ok \/ groups = <<>> THEN run
    ELSE LET pageBackups ==
                SortStrings({file \in Range(backupFiles) :
                                RegexMatch(file)[1].pageId = Head(groups)})
         IN  CountPass(DeleteEach(run,
                                  backupsToDelete(pageBackups, maxBackupsPerPage),
                                  faults),
                       Tail(groups), backupFiles, maxBackupsPerPage, faults)

\* backupFiles.forEach: statSync, then unlinkSync when older than maxAge;
\* statSync of a file that is gone throws
RECURSIVE AgePass(_, _, _, _, _)
AgePass(run, backupFiles, t, maxAge, faults) ==
    IF ~run.ok \/ backupFiles = <<>> THEN run
    ELSE LET file == Head(backupFiles)
         IN  IF file \notin DOMAIN run.fs
             THEN [run EXCEPT !.ok = FALSE,
                              !.err = <<[code |-> "ENOENT", file |-> file]>>]
             ELSE IF t - run.fs[file].mtime > maxAge
             THEN AgePass(DeleteEach(run, <<file>>, faults),
                          Tail(backupFiles), t, maxAge, faults)
             ELSE AgePass(run, Tail(backupFiles), t, maxAge, faults)

\* (mutant of cleanupOldBackups) maxBackupAge is compared as milliseconds
cleanupOldBackups_NoDayMs(fs, dir, t, maxBackupsPerPage, maxBackupAge, faults) ==
    LET backupFiles == SelectSeq(dir, LAMBDA file : RegexMatch(file) # <<>>)
        counted == CountPass([fs |-> fs, ok |-> TRUE, log |-> <<>>, err |-> <<>>],
                             GroupOrder(backupFiles, {}), backupFiles,
                             maxBackupsPerPage, faults)
    IN  AgePass(counted, backupFiles, t, maxBackupAge, faults)

\* `dir` is the order readdirSync lists the directory in
cleanupOldBackups(fs, dir, t, maxBackupsPerPage, maxBackupAge, faults) ==
    LET backupFiles == SelectSeq(dir, LAMBDA file : RegexMatch(file) # <<>>)
        counted == CountPass([fs |-> fs, ok |-> TRUE, log |-> <<>>, err |-> <<>>],
                             GroupOrder(backupFiles, {}), backupFiles,
                             maxBackupsPerPage, faults)
    IN  AgePass(counted, backupFiles, t, maxBackupAge * DayMs, faults)

\* the orders readdirSync may list a set of names in
RECURSIVE Orders(_)
Orders(S) ==
    IF S = {} THEN {<<>>}
    ELSE UNION {{<<x>> \o rest : rest \in Orders(S \ {x})} : x \in S}

(***************************************************************************)
(* Gateway calls.  A call takes effect when it is issued; `ok` is whether  *)
(* it succeeds.  The caller reads the response when it resumes.            *)
(***************************************************************************)
Slots == {"r1", "r2"}

Idle ==
    [kind |-> "idle", pc |-> "idle", pageId |-> <<>>,
     properties |-> <<>>, content |-> <<>>, skipBackup |-> FALSE,
     backupFilename |-> <<>>, backupInfo |-> <<>>, snapshot |-> <<>>,
     resp |-> [ok |-> TRUE, page |-> <<>>, blocks |-> <<>>, results |-> <<>>,
              message |-> ""],
     page |-> <<>>, todo |-> <<>>, calls |-> <<>>, appended |-> <<>>,
     result |-> <<>>]

\* the message of the error a failed Gateway call throws
GatewayError == "Request to Notion API failed"

Resp(ok) ==
    [ok |-> ok, page |-> <<>>, blocks |-> <<>>, results |-> <<>>,
     message |-> IF ok THEN "" ELSE GatewayError]

\* the record a step works on: the request and everything it can change
World(s) == [r |-> req[s], remote |-> remote, nextId |-> nextId, files |-> files]

Await(w, pc, call, resp) ==
    [w EXCEPT !.r.pc = pc, !.r.calls = Append(@, call), !.r.resp = resp]

\* notion.pages.retrieve
GwRetrieve(w, pc, ok) ==
    Await(w, pc, "pages.retrieve",
          [Resp(ok) EXCEPT !.page =
              IF ok THEN <<[id |-> w.r.pageId,
                            properties |-> w.remote[w.r.pageId].properties]>>
              ELSE <<>>])

\* the children listings fetchAllBlocks issues, as one call
GwFetchBlocks(w, pc, ok) ==
    Await(w, pc, "blocks.children.list*",
          [Resp(ok) EXCEPT !.blocks =
              IF ok THEN fetchAllBlocks(w.remote[w.r.pageId].blocks,
                                        MAX_DEPTH_DEFAULT, 0)
              ELSE <<>>])

\* notion.blocks.children.list({ block_id }): the first listing page only;
\* the callers read nothing but the ids of the blocks in it
GwListFirst(w, pageId, pc, ok) ==
    Await(w, pc, "blocks.children.list",
          [Resp(ok) EXCEPT !.results =
              IF ok
              THEN LET page == ListChildren(w.remote[pageId].blocks, 0,
                                            GatewayPageLimit).results
                   IN  [i \in 1..Len(page) |-> page[i].id]
              ELSE <<>>])

\* notion.pages.update({ page_id, properties })
GwUpdateProperties(w, pageId, properties, pc, ok) ==
    Await(IF ok THEN [w EXCEPT !.remote[pageId].properties = properties] ELSE w,
          pc, "pages.update", Resp(ok))

\* notion.pages.update({ page_id, archived: true })
GwArchive(w, pageId, pc, ok) ==
    Await(IF ok THEN [w EXCEPT !.remote[pageId].archived = TRUE] ELSE w,
          pc, "pages.archive", Resp(ok))

\* notion.blocks.delete({ block_id }): fails when the block is gone
GwDeleteBlock(w, pageId, id, pc, ok) ==
    LET found == \E i \in 1..Len(w.remote[pageId].blocks) :
                    w.remote[pageId].blocks[i].id = id
        done  == ok /\ found
    IN  Await(IF done
              THEN [w EXCEPT !.remote[pageId].blocks =
                        SelectSeq(@, LAMBDA b : b.id # id)]
              ELSE w,
              pc, "blocks.delete", Resp(done))

\* notion.blocks.children.append({ block_id, children }): the Gateway gives
\* each new block the next identifier; `appended` keeps the children sent
GwAppend(w, pageId, children, pc, ok) ==
    Await(IF ok
          THEN [w EXCEPT
                  !.remote[pageId].blocks =
                      @ \o [i \in 1..Len(children) |->
                              Blk(w.nextId + i - 1, children[i].type,
                                  children[i].text, <<>>)],
                  !.nextId = @ + Len(children),
                  !.r.appended = <<children>>]
          ELSE [w EXCEPT !.r.appended = <<children>>],
          pc, "blocks.children.append", Resp(ok))

Mutating == {"pages.update", "pages.archive", "blocks.delete",
             "blocks.children.append"}

\* the handler returns
Return(w, isError, text) ==
    [w EXCEPT !.r.pc = "done",
              !.r.result = <<[isError |-> isError, text |-> text]>>]

(***************************************************************************)
(* notion-api.ts: updatePage, deletePage, and the tails of their handlers  *)
(* in index.ts.                                                            *)
(***************************************************************************)
DefaultParagraph == [type |-> "paragraph", text |-> "Invalid block removed."]

\* a block without a type, or without content under its type key, is
\* replaced by a default paragraph
validateBlocks(blocks) ==
    [i \in 1..Len(blocks) |->
        IF blocks[i].type = "" THEN DefaultParagraph
        ELSE IF blocks[i].text = "undefined" THEN DefaultParagraph
        ELSE blocks[i]]

\* update-page: updatePage returned
UpdateDone(w) ==
    Return(w, FALSE,
           IF w.r.backupInfo # <<>>
           THEN "Page updated successfully. A backup was created before the update."
           ELSE "Page updated successfully.")

\* update-page: the outer catch
UpdateFailed(w) == Return(w, TRUE, "Error updating page")

\* updatePage: delete the listed blocks one by one, then addBlocksToPage
updatePage_clear(w, ok) ==
    IF w.r.todo = <<>>
    THEN GwAppend(w, w.r.pageId, validateBlocks(validateBlocks(w.r.content[1])),
                  "up_append", ok)
    ELSE GwDeleteBlock([w EXCEPT !.r.todo = Tail(@)], w.r.pageId,
                       Head(w.r.todo), "up_delete", ok)

\* updatePage: if (content && content.length > 0)
updatePage_content(w, ok) ==
    IF w.r.content # <<>> /\ Len(w.r.content[1]) > 0
    THEN GwListFirst(w, w.r.pageId, "up_list", ok)
    ELSE UpdateDone(w)

\* updatePage: if (properties)
updatePage(w, ok) ==
    IF w.r.properties # <<>>
    THEN GwUpdateProperties(w, w.r.pageId, w.r.properties[1], "up_props", ok)
    ELSE updatePage_content(w, ok)

deletePage(w, ok) == GwArchive(w, w.r.pageId, "dl_archive", ok)

\* delete-page: deletePage returned
DeleteDone(w) ==
    Return(w, FALSE,
           IF w.r.backupInfo # <<>>
           THEN "Page has been deleted. A backup was created before deletion."
           ELSE "Page has been deleted.")

\* delete-page: the outer catch
DeleteFailed(w) == Return(w, TRUE, "Error deleting page")

(***************************************************************************)
(* backupPage inside update-page and delete-page.                          *)
(***************************************************************************)
\* (mutant of BackupFailed) delete-page logs the failure and goes on, as
\* update-page does
BackupFailed_GoesOn(w, ok) ==
    IF w.r.kind = "update" THEN updatePage(w, ok) ELSE deletePage(w, ok)

\* backupPage threw: update-page logs it and goes on to updatePage,
\* delete-page returns the abort
BackupFailed(w, ok) ==
    IF w.r.kind = "update" THEN updatePage(w, ok)
    ELSE Return(w, TRUE,
                "Safety procedure failed: Could not create backup before deletion. Operation aborted.")

\* backupPage returned: the handler goes on to the mutation
BackupDone(w, ok) ==
    IF w.r.kind = "update" THEN updatePage(w, ok) ELSE deletePage(w, ok)

\* backupPage up to its first await: fetchPageContent retrieves the page
backupPage(w, ok) == GwRetrieve(w, "bk_page", ok)

\* fetchPageContent after pages.retrieve: fetchAllBlocks
backupPage_blocks(w, ok) ==
    GwFetchBlocks([w EXCEPT !.r.page = w.r.resp.page], "bk_blocks", ok)

\* (mutant of backupPage_write) the snapshot is written without the blocks
backupPage_write_NoBlocks(w, t, wok) ==
    IF ~w.r.resp.ok \/ wok = "failed" THEN w
    ELSE LET pageContent == [page |-> w.r.page[1], blocks |-> <<>>]
             name == backupFilename(w.r.pageId, backupTimestamp(t))
         IN  IF wok = "torn"
             THEN [w EXCEPT !.files = writeFileSync_torn(@, name, pageContent, t)]
             ELSE [w EXCEPT !.files = writeFileSync(@, name, pageContent, t),
                            !.r.backupInfo = <<name>>]

\* backupPage after fetchPageContent: name the file at time t and write it
\* (`wok`: how writeFileSync ends); backupInfo stays null when backupPage
\* throws
backupPage_write(w, t, wok) ==
    IF ~w.r.resp.ok \/ wok = "failed" THEN w
    ELSE LET pageContent == [page |-> w.r.page[1], blocks |-> w.r.resp.blocks]
             name == backupFilename(w.r.pageId, backupTimestamp(t))
         IN  IF wok = "torn"
             THEN [w EXCEPT !.files = writeFileSync_torn(@, name, pageContent, t)]
             ELSE [w EXCEPT !.files = writeFileSync(@, name, pageContent, t),
                            !.r.backupInfo = <<name>>]

\* update-page / delete-page after await backupPage
AfterBackup(w, ok) ==
    IF w.r.backupInfo = <<>> THEN BackupFailed(w, ok) ELSE BackupDone(w, ok)

(***************************************************************************)
(* backup-utils.ts: the Restorer.                                          *)
(***************************************************************************)
RestoreDone(w) == Return(w, FALSE, "Page has been restored from backup")

\* (mutant of RestoreFailed) the message of the error caught is dropped
RestoreFailed_NoMessage(w, message) ==
    Return(w, TRUE, "Error managing backups: Failed to restore from backup")

\* restoreFromBackup rethrows with its prefix, manage-backups catches and
\* adds its own; `message` is the message of the error caught
RestoreFailed(w, message) ==
    Return(w, TRUE,
           "Error managing backups: " \o "Failed to restore from backup: "
                \o message)

\* `Backup file not found: ${backupFilename}`, without the name
NotFound == "Backup file not found"

\* the SyntaxError JSON.parse throws on a text that ends early
ParseError == "Unexpected end of JSON input"

\* (mutant of topLevelBlocks) the blocks are sent as they are stored
topLevelBlocks_Whole(blocks) == blocks

\* const { id, children, ...blockContent } = block
topLevelBlocks(blocks) ==
    [i \in 1..Len(blocks) |->
        [type |-> blocks[i].type, has_children |-> blocks[i].has_children,
         text |-> blocks[i].text]]

\* the TypeError of backupContent.page.id when the text has no page
NoPageError == "Cannot read properties of undefined (reading 'id')"

\* the TypeError of blocks.map when the text has no blocks
NoBlocksError == "Cannot read properties of undefined (reading 'map')"

\* restoreFromBackup up to its first await: existsSync, parse, pages.update;
\* the fields of the parsed text are read where they are used, and an
\* update with properties undefined is sent and changes no property
restoreFromBackup(w, ok) ==
    IF w.r.backupFilename \notin DOMAIN w.files THEN RestoreFailed(w, NotFound)
    ELSE IF ~w.files[w.r.backupFilename].complete
    THEN RestoreFailed(w, ParseError)
    ELSE LET backupContent == w.files[w.r.backupFilename].content
         IN  IF "page" \notin DOMAIN backupContent
             THEN RestoreFailed(w, NoPageError)
             ELSE GwUpdateProperties(
                    [w EXCEPT !.r.snapshot = <<backupContent>>,
                              !.r.pageId = backupContent.page.id],
                    backupContent.page.id,
                    IF "properties" \in DOMAIN backupContent.page
                    THEN backupContent.page.properties
                    ELSE w.remote[backupContent.page.id].properties,
                    "rs_props", ok)

\* then notion.blocks.children.list
restoreFromBackup_list(w, ok) == GwListFirst(w, w.r.pageId, "rs_list", ok)

\* for (const block of existingBlocks.results) delete; then append
restoreFromBackup_clear(w, ok) ==
    IF w.r.todo = <<>>
    THEN IF "blocks" \notin DOMAIN w.r.snapshot[1]
         THEN RestoreFailed(w, NoBlocksError)
         ELSE GwAppend(w, w.r.pageId, topLevelBlocks(w.r.snapshot[1].blocks),
                       "rs_append", ok)
    ELSE GwDeleteBlock([w EXCEPT !.r.todo = Tail(@)], w.r.pageId,
                       Head(w.r.todo), "rs_delete", ok)

(***************************************************************************)
(* The state machine.  A request runs from one await to the next in one    *)
(* step: it reads the response of the call it awaited, runs the code up to *)
(* the next Gateway call and issues that call.                             *)
(***************************************************************************)
Block1 == Blk(1, "toggle", "t1", <<Blk(4, "toggle", "t4",
              <<Blk(5, "toggle", "t5", <<Blk(6, "paragraph", "t6", <<>>)>>)>>)>>)
Block2 == Blk(2, "paragraph", "t2", <<>>)
Block3 == Blk(3, "heading_1", "t3", <<>>)
Block7 == Blk(7, "paragraph", "t7", <<>>)
FirstNewId == Block7.id + 1

NoOut ==
    [op |-> "none", pageId |-> <<>>, maxBackupsPerPage |-> 0,
     maxBackupAgeDays |-> 0, faulty |-> FALSE, backups |-> <<>>,
     ok |-> TRUE, log |-> <<>>, err |-> <<>>, text |-> "",
     maxDepth |-> 0, blocks |-> <<>>, calls |-> {},
     retrieved |-> TRUE, failing |-> {}, outcome |-> "",
     results |-> <<>>, sent |-> <<>>,
     hasMore |-> FALSE, cursor |-> 0, ncalls |-> 0]

Init ==
    /\ remote = [p \in Pages |->
                    [properties |-> "P0", archived |-> FALSE,
                     blocks |-> IF p = PageA THEN <<Block1, Block2, Block3>>
                                ELSE <<Block7>>]]
    /\ nextId = FirstNewId
    /\ files = <<>>
    /\ now = 0
    /\ req = [s \in Slots |-> Idle]
    /\ out = NoOut
    /\ config = [MAX_BLOCK_DEPTH |-> MAX_BLOCK_DEPTH_DEFAULT]

\* the result of a manage-backups list / cleanup call goes to the caller
\* in the same turn of the event loop: nothing else runs before Deliver
Ready == out.op = "none"

\* (mutant of Apply) a request runs only while no other is in flight
Apply_Serialized(s, w) ==
    /\ Ready
    /\ \A t \in Slots \ {s} : req[t].kind = "idle"
    /\ req' = [req EXCEPT ![s] = w.r]
    /\ remote' = w.remote
    /\ nextId' = w.nextId
    /\ files' = w.files
    /\ UNCHANGED <<now, out, config>>

\* a step of the request in slot s takes effect: nothing but the event
\* loop orders the steps of the requests in flight
Apply(s, w) ==
    /\ Ready
    /\ req' = [req EXCEPT ![s] = w.r]
    /\ remote' = w.remote
    /\ nextId' = w.nextId
    /\ files' = w.files
    /\ UNCHANGED <<now, out, config>>

PropertiesArgs == {<<>>, <<"P1">>}
ContentArgs ==
    {<<>>, <<<<>>>>,
     <<<<[type |-> "paragraph", text |-> "n1"],
         [type |-> "quote", text |-> "undefined"]>>>>}
FilenameArgs == DOMAIN files \cup {JsonSuffix}

\* tool update-page
UpdatePage(s, pageId, properties, content, skipBackup, ok) ==
    /\ req[s].kind = "idle"
    /\ nextId <= MaxId
    /\ skipBackup \/ Cardinality(DOMAIN files) < MaxFiles
    /\ LET w == [World(s) EXCEPT
                    !.r.kind = "update", !.r.pageId = pageId,
                    !.r.properties = properties, !.r.content = content,
                    !.r.skipBackup = skipBackup]
       IN  Apply(s, IF properties = <<>> /\ content = <<>> THEN UpdateFailed(w)
                    ELSE IF ~skipBackup THEN backupPage(w, ok)
                    ELSE updatePage(w, ok))

\* tool delete-page
DeletePage(s, pageId, skipBackup, ok) ==
    /\ req[s].kind = "idle"
    /\ skipBackup \/ Cardinality(DOMAIN files) < MaxFiles
    /\ LET w == [World(s) EXCEPT
                    !.r.kind = "delete", !.r.pageId = pageId,
                    !.r.skipBackup = skipBackup]
       IN  Apply(s, IF ~skipBackup THEN backupPage(w, ok) ELSE deletePage(w, ok))

\* tool manage-backups, action restore
Restore(s, filename, ok) ==
    /\ req[s].kind = "idle"
    /\ nextId <= MaxId
    /\ LET w == [World(s) EXCEPT
                    !.r.kind = "restore", !.r.backupFilename = filename]
       IN  Apply(s, restoreFromBackup(w, ok))

\* pages.retrieve of the capture answered
BackupRetrieved(s, ok) ==
    /\ req[s].pc = "bk_page"
    /\ Apply(s, IF ~req[s].resp.ok THEN BackupFailed(World(s), ok)
                ELSE backupPage_blocks(World(s), ok))

\* the children listings of the capture answered
BackupFetched(s, wok, ok) ==
    /\ req[s].pc = "bk_blocks"
    /\ Apply(s, AfterBackup(backupPage_write(World(s), now, wok), ok))

UpdatePropertiesDone(s, ok) ==
    /\ req[s].pc = "up_props"
    /\ Apply(s, IF ~req[s].resp.ok THEN UpdateFailed(World(s))
                ELSE updatePage_content(World(s), ok))

UpdateListed(s, ok) ==
    /\ req[s].pc = "up_list"
    /\ Apply(s, IF ~req[s].resp.ok THEN UpdateFailed(World(s))
                ELSE updatePage_clear(
                        [World(s) EXCEPT !.r.todo = req[s].resp.results], ok))

UpdateDeleted(s, ok) ==
    /\ req[s].pc = "up_delete"
    /\ Apply(s, IF ~req[s].resp.ok THEN UpdateFailed(World(s))
                ELSE updatePage_clear(World(s), ok))

UpdateAppended(s) ==
    /\ req[s].pc = "up_append"
    /\ Apply(s, IF ~req[s].resp.ok THEN UpdateFailed(World(s))
                ELSE UpdateDone(World(s)))

DeleteArchived(s) ==
    /\ req[s].pc = "dl_archive"
    /\ Apply(s, IF ~req[s].resp.ok THEN DeleteFailed(World(s))
                ELSE DeleteDone(World(s)))

RestorePropertiesDone(s, ok) ==
    /\ req[s].pc = "rs_props"
    /\ Apply(s, IF ~req[s].resp.ok THEN RestoreFailed(World(s), req[s].resp.message)
                ELSE restoreFromBackup_list(World(s), ok))

RestoreListed(s, ok) ==
    /\ req[s].pc = "rs_list"
    /\ Apply(s, IF ~req[s].resp.ok THEN RestoreFailed(World(s), req[s].resp.message)
                ELSE restoreFromBackup_clear(
                        [World(s) EXCEPT !.r.todo = req[s].resp.results], ok))

\* (mutant of RestoreDeleted) a failed blocks.delete is skipped over
RestoreDeleted_GoesOn(s, ok) ==
    /\ req[s].pc = "rs_delete"
    /\ Apply(s, restoreFromBackup_clear(World(s), ok))

RestoreDeleted(s, ok) ==
    /\ req[s].pc = "rs_delete"
    /\ Apply(s, IF ~req[s].resp.ok THEN RestoreFailed(World(s), req[s].resp.message)
                ELSE restoreFromBackup_clear(World(s), ok))

RestoreAppended(s) ==
    /\ req[s].pc = "rs_append"
    /\ Apply(s, IF ~req[s].resp.ok THEN RestoreFailed(World(s), req[s].resp.message)
                ELSE RestoreDone(World(s)))

\* the result has been sent to the caller
Reply(s) ==
    /\ Ready
    /\ req[s].pc = "done"
    /\ req' = [req EXCEPT ![s] = Idle]
    /\ UNCHANGED <<remote, nextId, files, now, out, config>>

\* tool manage-backups, action list
ManageBackupsList(pageId) ==
    /\ Ready
    /\ out' = [NoOut EXCEPT !.op = "list", !.pageId = pageId,
                            !.backups = listPageBackups(files, pageId)]
    /\ UNCHANGED <<remote, nextId, files, now, req, config>>

\* tool manage-backups, action cleanup
ManageBackupsCleanup(maxBackupsPerPage, maxBackupAgeDays, dir, faults) ==
    /\ Ready
    /\ \E run \in {cleanupOldBackups(files, dir, now, maxBackupsPerPage,
                                     maxBackupAgeDays, faults)} :
        /\ files' = run.fs
        /\ out' = [NoOut EXCEPT
                     !.op = "cleanup",
                     !.maxBackupsPerPage = maxBackupsPerPage,
                     !.maxBackupAgeDays = maxBackupAgeDays,
                     !.faulty = (faults # {}),
                     !.ok = run.ok, !.log = run.log, !.err = run.err,
                     !.text = IF run.ok
                              THEN "Backup cleanup completed successfully."
                              ELSE "Backup cleanup failed. Check server logs for details."]
        /\ UNCHANGED <<remote, nextId, now, req, config>>

Deliver ==
    /\ ~Ready
    /\ out' = NoOut
    /\ UNCHANGED <<remote, nextId, files, now, req, config>>

\* backupPage as a whole, for a page nothing else is changing
CapturePage(pageId) ==
    /\ Ready
    /\ Cardinality(DOMAIN files) < MaxFiles
    /\ files' = writeFileSync(files,
                              backupFilename(pageId, backupTimestamp(now)),
                              fetchPageContent(remote, pageId), now)
    /\ UNCHANGED <<remote, nextId, now, req, out, config>>

Tick ==
    /\ Ready
    /\ now < MaxTime
    /\ now' = now + 1
    /\ UNCHANGED <<remote, nextId, files, req, out, config>>

(***************************************************************************)
(* Spec: the tool handlers.  One mutating request at a time (the single    *)
(* writer per page the design assumes), all against one page, with         *)
(* cleanup calls arriving at any await.  The requests follow each other    *)
(* within one tick of the clock; SpecStore below lets the clock advance.   *)
(***************************************************************************)
Main == "r1"
RequestPages == {PageA}
PolicyArgs == 0..MaxKeep \cup {Unlimited}

\* the orders readdirSync may list the directory in when a tool call runs
Listings == IF Ready THEN Orders(DOMAIN files) ELSE {}

Next ==
    \/ \E p \in RequestPages, props \in PropertiesArgs, c \in ContentArgs,
          skip \in BOOLEAN, ok \in BOOLEAN :
            UpdatePage(Main, p, props, c, skip, ok)
    \/ \E p \in RequestPages, skip \in BOOLEAN, ok \in BOOLEAN :
            DeletePage(Main, p, skip, ok)
    \/ \E f \in FilenameArgs, ok \in BOOLEAN : Restore(Main, f, ok)
    \/ \E s \in Slots, ok \in BOOLEAN : BackupRetrieved(s, ok)
    \/ \E s \in Slots, wok \in WriteOutcomes, ok \in BOOLEAN :
            BackupFetched(s, wok, ok)
    \/ \E s \in Slots, ok \in BOOLEAN : UpdatePropertiesDone(s, ok)
    \/ \E s \in Slots, ok \in BOOLEAN : UpdateListed(s, ok)
    \/ \E s \in Slots, ok \in BOOLEAN : UpdateDeleted(s, ok)
    \/ \E s \in Slots : UpdateAppended(s)
    \/ \E s \in Slots : DeleteArchived(s)
    \/ \E s \in Slots, ok \in BOOLEAN : RestorePropertiesDone(s, ok)
    \/ \E s \in Slots, ok \in BOOLEAN : RestoreListed(s, ok)
    \/ \E s \in Slots, ok \in BOOLEAN : RestoreDeleted(s, ok)
    \/ \E s \in Slots : RestoreAppended(s)
    \/ \E s \in Slots : Reply(s)
    \/ \E n \in {0, MaxKeep} :
            ManageBackupsCleanup(n, Unlimited, SortStrings(DOMAIN files), {})
    \/ Deliver

Spec == Init /\ [][Next]_vars

(***************************************************************************)
(* SpecStore: the Snapshot Store and the Retention Manager alone, over a   *)
(* workspace that does not change.                                         *)
(***************************************************************************)
NextStore ==
    \/ \E p \in Pages : CapturePage(p)
    \/ \E p \in Pages : ManageBackupsList(p)
    \/ \E n \in PolicyArgs, a \in PolicyArgs, dir \in Listings :
            ManageBackupsCleanup(n, a, dir, {})
    \/ \E n \in PolicyArgs, a \in PolicyArgs, f \in DOMAIN files :
            ManageBackupsCleanup(n, a, SortStrings(DOMAIN files), {f})
    \/ Tick
    \/ Deliver

SpecStore == Init /\ [][NextStore]_vars

(***************************************************************************)
(* SpecTree: the Tree Materializer and the capture as a whole, over every  *)
(* block tree of a family and every configured depth, with Gateway calls   *)
(* and the write of the artifact failing.  The workspace does not change   *)
(* and the clock stands still.                                             *)
(***************************************************************************)
\* most children of one block: one more than a listing page holds
MaxWidth == GatewayPageLimit + 1

\* the shapes of the family: a block list of up to MaxWidth blocks, the
\* last of which may have children of its own, down to n levels
RECURSIVE Shapes(_)
Shapes(n) ==
    IF n = 0 THEN {<<>>}
    ELSE {<<>>} \cup {[i \in 1..k |-> IF i = k THEN c ELSE <<>>] :
                        k \in 1..MaxWidth, c \in Shapes(n - 1)}

\* the blocks of a shape, the children of block `parent` (0: the page)
RECURSIVE Build(_, _)
Build(shape, parent) ==
    [i \in 1..Len(shape) |->
        LET id == parent * (MaxWidth + 1) + i
        IN  Blk(id, IF shape[i] = <<>> THEN "paragraph" ELSE "toggle", "t",
                Build(shape[i], id))]

Trees == {Build(shape, 0) : shape \in Shapes(MaxTreeDepth)}

DepthArgs == 0..MaxTreeDepth

InitTree ==
    /\ \E tree \in Trees :
          remote = [p \in Pages |->
                      [properties |-> "P0", archived |-> FALSE,
                       blocks |-> IF p = PageA THEN tree ELSE <<>>]]
    /\ nextId = FirstNewId
    /\ files = <<>>
    /\ now = 0
    /\ req = [s \in Slots |-> Idle]
    /\ out = NoOut
    /\ config \in [MAX_BLOCK_DEPTH : DepthArgs]

\* [block_id, start_cursor] of a listing call
CallKey(call) == [block_id |-> call.block_id, start_cursor |-> call.start_cursor]

\* the listings that can be made to fail: none, or any one listing of the
\* page's tree, within the depth limit or beyond it
FailingArgs(pageId) ==
    {{}} \cup {{CallKey(call)} :
                call \in listingCalls(remote[pageId].blocks, 0,
                                      MaxTreeDepth + 1, 0)}

\* fetchAllBlocks(notion, pageId, maxDepth)
FetchAllBlocks(pageId, maxDepth) ==
    /\ Ready
    /\ out' = [NoOut EXCEPT
                 !.op = "fetch", !.pageId = pageId, !.maxDepth = maxDepth,
                 !.blocks = fetchAllBlocks(remote[pageId].blocks, maxDepth, 0),
                 !.calls = listingCalls(remote[pageId].blocks, 0, maxDepth, 0)]
    /\ UNCHANGED <<remote, nextId, files, now, req, config>>

\* backupPage as a whole: pages.retrieve succeeds or not, the listings in
\* `failing` throw, writeFileSync ends as `wok`
BackupPage(pageId, retrieveOk, failing, wok) ==
    /\ Ready
    /\ LET pageContent == fetchPageContent_try(remote, pageId, retrieveOk, failing)
           name == backupFilename(pageId, backupTimestamp(now))
       IN  /\ files' = IF pageContent = <<>> \/ wok = "failed" THEN files
                        ELSE IF wok = "torn"
                        THEN writeFileSync_torn(files, name, pageContent[1], now)
                        ELSE writeFileSync(files, name, pageContent[1], now)
           /\ out' = [NoOut EXCEPT
                        !.op = "capture", !.pageId = pageId,
                        !.retrieved = retrieveOk, !.failing = failing,
                        !.outcome = wok,
                        !.ok = (pageContent # <<>> /\ wok = "written"),
                        !.blocks = IF pageContent # <<>> /\ wok = "written"
                                   THEN pageContent[1].blocks ELSE <<>>,
                        !.text = IF pageContent # <<>> /\ wok = "written"
                                 THEN "" ELSE "Failed to backup page"]
    /\ UNCHANGED <<remote, nextId, now, req, config>>

NextTree ==
    \/ \E d \in DepthArgs : FetchAllBlocks(PageA, d)
    \/ \E retrieveOk \in BOOLEAN, failing \in FailingArgs(PageA) :
            BackupPage(PageA, retrieveOk, failing, "written")
    \/ \E wok \in WriteOutcomes : BackupPage(PageA, TRUE, {}, wok)
    \/ \E p \in Pages : ManageBackupsList(p)
    \/ Deliver

SpecTree == InitTree /\ [][NextTree]_vars

(***************************************************************************)
(* SpecPair: two requests in flight at once (the MCP server starts a       *)
(* handler for each request as it arrives), update-page with properties    *)
(* and restore, against one page, within one tick of the clock.            *)
(***************************************************************************)
NextPair ==
    \/ \E s \in Slots, ok \in BOOLEAN :
            UpdatePage(s, PageA, <<"P1">>, <<>>, FALSE, ok)
    \/ \E s \in Slots, f \in DOMAIN files, ok \in BOOLEAN : Restore(s, f, ok)
    \/ \E s \in Slots, ok \in BOOLEAN : BackupRetrieved(s, ok)
    \/ \E s \in Slots, wok \in WriteOutcomes, ok \in BOOLEAN :
            BackupFetched(s, wok, ok)
    \/ \E s \in Slots, ok \in BOOLEAN : UpdatePropertiesDone(s, ok)
    \/ \E s \in Slots, ok \in BOOLEAN : RestorePropertiesDone(s, ok)
    \/ \E s \in Slots, ok \in BOOLEAN : RestoreListed(s, ok)
    \/ \E s \in Slots, ok \in BOOLEAN : RestoreDeleted(s, ok)
    \/ \E s \in Slots : RestoreAppended(s)
    \/ \E s \in Slots : Reply(s)

SpecPair == Init /\ [][NextPair]_vars

(***************************************************************************)
(* SpecRace: two requests in flight at once against a page whose blocks    *)
(* fit in one listing page, so that every listing a restore makes shows    *)
(* all the blocks the page has at that moment.  The captures meet no       *)
(* fault; the calls of restore can fail.                                   *)
(***************************************************************************)
NextRace ==
    \/ \E s \in Slots : UpdatePage(s, PageAB, <<"P1">>, <<>>, FALSE, TRUE)
    \/ \E s \in Slots, f \in DOMAIN files, ok \in BOOLEAN : Restore(s, f, ok)
    \/ \E s \in Slots : BackupRetrieved(s, TRUE)
    \/ \E s \in Slots : BackupFetched(s, "written", TRUE)
    \/ \E s \in Slots : UpdatePropertiesDone(s, TRUE)
    \/ \E s \in Slots, ok \in BOOLEAN : RestorePropertiesDone(s, ok)
    \/ \E s \in Slots, ok \in BOOLEAN : RestoreListed(s, ok)
    \/ \E s \in Slots, ok \in BOOLEAN : RestoreDeleted(s, ok)
    \/ \E s \in Slots : RestoreAppended(s)
    \/ \E s \in Slots : Reply(s)

SpecRace == Init /\ [][NextRace]_vars

(***************************************************************************)
(* SpecDrain: the while (hasMore) loop of fetchAllBlocks call by call,     *)
(* against a Gateway whose response may report more results without a      *)
(* continuation token.                                                     *)
(***************************************************************************)
\* the response to one listing call; `tokenless`: has_more is true and
\* next_cursor is null
GatewayResponse(all, cursor, tokenless) ==
    LET response == ListChildren(all, cursor, DEFAULT_PAGE_SIZE)
    IN  IF tokenless
        THEN [response EXCEPT !.has_more = TRUE, !.next_cursor = 0]
        ELSE response

\* const blocks = []; let hasMore = true; let cursor = undefined
StartDrain(pageId) ==
    /\ out.op \in {"none", "drained"}
    /\ out' = [NoOut EXCEPT !.op = "drain", !.pageId = pageId,
                            !.hasMore = TRUE, !.cursor = 0]
    /\ UNCHANGED <<remote, nextId, files, now, req, config>>

\* one turn of the loop: list from the cursor, push the results, take
\* has_more and next_cursor || undefined
DrainStep(tokenless) ==
    /\ out.op = "drain"
    /\ out.hasMore
    /\ out.ncalls < MaxCalls
    /\ LET response == GatewayResponse(remote[out.pageId].blocks, out.cursor,
                                       tokenless)
       IN  out' = [out EXCEPT !.blocks = @ \o response.results,
                              !.hasMore = response.has_more,
                              !.cursor = response.next_cursor,
                              !.ncalls = @ + 1]
    /\ UNCHANGED <<remote, nextId, files, now, req, config>>

\* the loop is left
DrainDone ==
    /\ out.op = "drain"
    /\ ~out.hasMore
    /\ out' = [out EXCEPT !.op = "drained"]
    /\ UNCHANGED <<remote, nextId, files, now, req, config>>

NextDrain ==
    \/ StartDrain(PageA)
    \/ \E tokenless \in BOOLEAN : DrainStep(tokenless)
    \/ DrainDone

SpecDrain == InitTree /\ [][NextDrain]_vars

(***************************************************************************)
(* SpecForeign: restore from a backup directory that holds one file not    *)
(* written by backupPage: a text that does not parse, or a JSON object     *)
(* without the page, the properties or the blocks.  restoreFromBackup      *)
(* takes any file name of the directory.                                   *)
(***************************************************************************)
\* what the file may hold for page p: a whole snapshot and its cuts
ForeignContents(p) ==
    LET whole == [page   |-> [id |-> p, properties |-> "P1"],
                  blocks |-> <<[id |-> 1, type |-> "quote", text |-> "q",
                                has_children |-> FALSE, children |-> <<>>]>>]
    IN  {whole,
         [page |-> whole.page],
         [page |-> [id |-> p], blocks |-> whole.blocks],
         [blocks |-> whole.blocks]}

InitForeign ==
    /\ remote = [p \in Pages |->
                    [properties |-> "P0", archived |-> FALSE,
                     blocks |-> IF p = PageA THEN <<Block1, Block2, Block3>>
                                ELSE <<Block7>>]]
    /\ nextId = FirstNewId
    /\ \E p \in Pages, complete \in BOOLEAN :
          \E content \in ForeignContents(p) :
              LET name == backupFilename(p, backupTimestamp(0))
              IN  files = IF complete
                          THEN writeFileSync(<<>>, name, content, 0)
                          ELSE writeFileSync_torn(<<>>, name, content, 0)
    /\ now = 0
    /\ req = [s \in Slots |-> Idle]
    /\ out = NoOut
    /\ config = [MAX_BLOCK_DEPTH |-> MAX_BLOCK_DEPTH_DEFAULT]

NextForeign ==
    \/ \E s \in Slots, f \in DOMAIN files, ok \in BOOLEAN : Restore(s, f, ok)
    \/ \E s \in Slots, ok \in BOOLEAN : RestorePropertiesDone(s, ok)
    \/ \E s \in Slots, ok \in BOOLEAN : RestoreListed(s, ok)
    \/ \E s \in Slots, ok \in BOOLEAN : RestoreDeleted(s, ok)
    \/ \E s \in Slots : RestoreAppended(s)
    \/ \E s \in Slots : Reply(s)

SpecForeign == InitForeign /\ [][NextForeign]_vars

(***************************************************************************)
(* SpecShape: the fields of a block, key by key, from the Gateway's        *)
(* listing through the materialized record to the record restore sends     *)
(* back.  A block is a function from its keys to their values; leaves are  *)
(* strings.                                                                *)
(***************************************************************************)
\* the record stored under the type key of a block the Gateway returns
Payload(type) ==
    CASE type = "paragraph"    -> [rich_text |-> "text", color |-> "default"]
      [] type = "image"        -> [type |-> "external", external |-> "https://e/i.png"]
      [] type = "link_to_page" -> [type |-> "page_id", page_id |-> "a"]
      [] type = "child_page"   -> [title |-> "T"]

BlockTypes == {"paragraph", "image", "link_to_page", "child_page"}

\* a block as notion.blocks.children.list returns it
GatewayBlock(id, type, has_children) ==
    [id |-> id, type |-> type, has_children |-> has_children,
     created_time |-> "t0", last_edited_time |-> "t1"]
        @@ (type :> Payload(type))

GatewayBlocks ==
    {GatewayBlock(id, type, hc) :
        id \in {"b1", "b2"}, type \in BlockTypes, hc \in BOOLEAN}

\* the listings of SpecShape: one block, or two with different ids
GatewayLists ==
    {<<b>> : b \in GatewayBlocks}
        \cup {<<b, c>> : b \in {x \in GatewayBlocks : x.id = "b1"},
                         c \in {x \in GatewayBlocks : x.id = "b2"}}

\* const processedBlock = { id, type, has_children, created_time,
\* last_edited_time, ...block[block.type] }: a later key of the literal
\* replaces an earlier one of the same name; then, if (block.has_children),
\* processedBlock.children = `children`
processedBlock(block, children) ==
    LET own == [id |-> block.id, type |-> block.type,
                has_children |-> block.has_children,
                created_time |-> block.created_time,
                last_edited_time |-> block.last_edited_time]
        payload == block[block.type]
        spread == [k \in DOMAIN own \cup DOMAIN payload |->
                      IF k \in DOMAIN payload THEN payload[k] ELSE own[k]]
    IN  IF block.has_children
        THEN [k \in DOMAIN spread \cup {"children"} |->
                 IF k = "children" THEN children ELSE spread[k]]
        ELSE spread

\* const { id, children, ...blockContent } = block
blockContent(block) == [k \in DOMAIN block \ {"id", "children"} |-> block[k]]

\* a listing of children arrives from the Gateway
ListBlocks(results) ==
    /\ Ready
    /\ out' = [NoOut EXCEPT !.op = "listed", !.results = results]
    /\ UNCHANGED <<remote, nextId, files, now, req, config>>

\* for (const block of blocks) of fetchAllBlocks, the blocks below being
\* beyond the depth limit
ProcessBlocks ==
    /\ out.op = "listed"
    /\ out' = [out EXCEPT
                 !.op = "processed",
                 !.blocks = [i \in 1..Len(out.results) |->
                               processedBlock(out.results[i], <<>>)]]
    /\ UNCHANGED <<remote, nextId, files, now, req, config>>

\* blocks.map of restoreFromBackup on the blocks of the snapshot
RecreateBlocks ==
    /\ out.op = "processed"
    /\ out' = [out EXCEPT
                 !.op = "recreated",
                 !.sent = [i \in 1..Len(out.blocks) |->
                             blockContent(out.blocks[i])]]
    /\ UNCHANGED <<remote, nextId, files, now, req, config>>

NextShape ==
    \/ \E results \in GatewayLists : ListBlocks(results)
    \/ ProcessBlocks
    \/ RecreateBlocks
    \/ Deliver

SpecShape == Init /\ [][NextShape]_vars

(***************************************************************************)
(* Properties.                                                             *)
(***************************************************************************)
\* the artifacts captured for page p, told by their content
ArtifactsOf(fs, p) == {f \in DOMAIN fs : fs[f].content.page.id = p}

\* an artifact's capture time: backupPage writes the file in the instant
\* it takes the timestamp
CapturedAt(fs, f) == fs[f].mtime

\* the n most recent artifacts of page p
MostRecent(fs, p, n) ==
    {f \in ArtifactsOf(fs, p) :
        Cardinality({g \in ArtifactsOf(fs, p) :
                        CapturedAt(fs, g) > CapturedAt(fs, f)}) < n}

\* artifacts of fs aged more than a days at time t
Expired(fs, t, a) == {f \in DOMAIN fs : t - CapturedAt(fs, f) > a * DayMs}

\* artifacts of fs beyond their page's count cutoff n
Excess(fs, n) ==
    {f \in DOMAIN fs : f \notin MostRecent(fs, fs[f].content.page.id, n)}

\* this step is a cleanup call with policy (n, a) in which no unlink fails
CleanupStep(n, a) ==
    /\ Ready
    /\ out'.op = "cleanup"
    /\ out'.maxBackupsPerPage = n
    /\ out'.maxBackupAgeDays = a
    /\ ~out'.faulty

\* the file names list(p) returns for artifacts of page p itself, in order
OwnListed(fs, p) ==
    LET own == SelectSeq(listPageBackups(fs, p),
                         LAMBDA d : fs[d.filename].content.page.id = p)
    IN  [i \in 1..Len(own) |-> own[i].filename]

NewestFirst(fs, names) ==
    \A i \in 1..Len(names), j \in 1..Len(names) :
        i < j => CapturedAt(fs, names[i]) > CapturedAt(fs, names[j])

\* this step is the first mutating Gateway call of an update-page or
\* delete-page request that has captured the page
FirstMutation(s) ==
    /\ req'[s].kind \in {"update", "delete"}
    /\ ~req'[s].skipBackup
    /\ req'[s].backupInfo # <<>>
    /\ Range(req[s].calls) \cap Mutating = {}
    /\ Range(req'[s].calls) \cap Mutating # {}

\* file `name` of fs holds the capture of page p as it is in `rem`, and
\* list(p) shows it
ArtifactHolds(fs, name, rem, p) ==
    /\ name \in DOMAIN fs
    /\ fs[name].complete
    /\ fs[name].content = fetchPageContent(rem, p)
    /\ \E i \in 1..Len(listPageBackups(fs, p)) :
            listPageBackups(fs, p)[i].filename = name

\* C1: delete-page with skipBackup = false whose backup failed never issues
\* the archive call and returns an error result; an archive call is issued
\* only after the capture of the same request went through, or with
\* skipBackup = true.
C1_DeleteAbortsWithoutBackup ==
    \A s \in Slots :
        LET r == req[s]
        IN  (r.kind = "delete" /\ ~r.skipBackup) =>
              /\ r.backupInfo = <<>> => "pages.archive" \notin Range(r.calls)
              /\ (r.backupInfo = <<>> /\ r.pc = "done") => r.result[1].isError
              /\ "pages.archive" \in Range(r.calls) =>
                    r.calls = <<"pages.retrieve", "blocks.children.list*",
                                "pages.archive">>

\* a delete-page request whose backup failed has returned
C1_Witness ==
    \E s \in Slots :
        /\ req[s].kind = "delete" /\ ~req[s].skipBackup
        /\ req[s].pc = "done" /\ req[s].backupInfo = <<>>
        /\ Len(req[s].calls) = 2
        /\ req[s].result[1].isError

\* C2: there is no update-page request with skipBackup = false whose backup
\* failed, that mutated the page, and that returned a plain success.
C2_NoSilentUnprotectedUpdate ==
    \A s \in Slots :
        LET r == req[s]
        IN  ~ /\ r.kind = "update" /\ ~r.skipBackup
              /\ r.pc = "done" /\ r.backupInfo = <<>>
              /\ Range(r.calls) \cap Mutating # {}
              /\ ~r.result[1].isError
              /\ r.result[1].text = "Page updated successfully."

\* C3, as claimed: when update-page or delete-page issues its first mutating
\* call after a successful capture, the artifact holding the page's
\* pre-mutation properties and blocks is in the store and list(pageId)
\* shows it.
C3_ArtifactAtFirstMutation ==
    [][\A s \in Slots :
         FirstMutation(s) =>
            ArtifactHolds(files', req'[s].backupInfo[1], remote, req'[s].pageId)]_vars

\* C3, amended: the capture's calls come before the first mutating call;
\* at that call the artifact, if still stored, holds the pre-mutation
\* properties and blocks and list(pageId) shows it; it can be gone (a
\* cleanup deleted it) only in update-page without properties, where a
\* listing is awaited between the capture and the first mutating call.
C3_CaptureBeforeMutation ==
    [][\A s \in Slots :
         FirstMutation(s) =>
            LET r == req'[s]
                name == r.backupInfo[1]
            IN  /\ SubSeq(r.calls, 1, 2) =
                        <<"pages.retrieve", "blocks.children.list*">>
                /\ name \in DOMAIN files' =>
                        ArtifactHolds(files', name, remote, r.pageId)
                /\ name \notin DOMAIN files' =>
                        (r.kind = "update" /\ r.properties = <<>>)]_vars

\* a captured request has issued a mutating call and its artifact is stored
C3_Witness ==
    \E s \in Slots :
        /\ req[s].kind \in {"update", "delete"} /\ ~req[s].skipBackup
        /\ req[s].backupInfo # <<>>
        /\ Range(req[s].calls) \cap Mutating # {}
        /\ req[s].backupInfo[1] \in DOMAIN files

\* C4: after restore returns success the page's properties are the
\* snapshot's and its top-level blocks are exactly the snapshot's top-level
\* blocks, in order, under new identifiers.
C4_RestoreReplacesPage ==
    \A s \in Slots :
        LET r == req[s]
        IN  (r.kind = "restore" /\ r.pc = "done" /\ ~r.result[1].isError) =>
              LET snap == r.snapshot[1]
                  page == remote[snap.page.id]
              IN  /\ page.properties = snap.page.properties
                  /\ Len(page.blocks) = Len(snap.blocks)
                  /\ \A i \in 1..Len(page.blocks) :
                        /\ i <= Len(snap.blocks)
                        /\ page.blocks[i].type = snap.blocks[i].type
                        /\ page.blocks[i].text = snap.blocks[i].text
                        /\ \A j \in 1..Len(snap.blocks) :
                              page.blocks[i].id # snap.blocks[j].id

\* C5: a cleanup with maxBackupsPerPage = n and no age limit leaves every
\* page exactly its n most recent artifacts (at most n), unchanged, and
\* list shows them newest first.
C5_CountRetention ==
    [][\A n \in 0..MaxKeep :
         CleanupStep(n, Unlimited) =>
            \A p \in Pages :
                /\ ArtifactsOf(files', p) = MostRecent(files, p, n)
                /\ Cardinality(ArtifactsOf(files', p)) <= n
                /\ \A f \in ArtifactsOf(files', p) : files'[f] = files[f]
                /\ Range(OwnListed(files', p)) = MostRecent(files, p, n)
                /\ NewestFirst(files', OwnListed(files', p))]_vars

\* a cleanup keeping one per page has deleted the two oldest of three
C5_Witness ==
    /\ out.op = "cleanup" /\ ~out.faulty
    /\ out.maxBackupsPerPage = 1 /\ out.maxBackupAgeDays = Unlimited
    /\ Len(out.log) = 2
    /\ Cardinality(DOMAIN files) = 1

\* C6: a cleanup with no count limit and maxBackupAge = a days leaves
\* exactly the artifacts whose age is at most a days, unchanged.
C6_AgeRetention ==
    [][\A a \in 0..MaxKeep :
         CleanupStep(Unlimited, a) =>
            /\ DOMAIN files' = DOMAIN files \ Expired(files, now, a)
            /\ \A f \in DOMAIN files' : files'[f] = files[f]]_vars

\* a cleanup by age has deleted an artifact and kept another
C6_Witness ==
    /\ out.op = "cleanup" /\ ~out.faulty
    /\ out.maxBackupsPerPage = Unlimited /\ out.maxBackupAgeDays = 1
    /\ Len(out.log) >= 1
    /\ files # <<>>

\* C7: a cleanup with both limits finite and no storage failure deletes
\* exactly the artifacts beyond their page's count cutoff and the artifacts
\* older than the age cutoff.
C7_DeletesUnion ==
    [][\A n \in 0..MaxKeep, a \in 0..MaxKeep :
         CleanupStep(n, a) =>
            DOMAIN files' =
                DOMAIN files \ (Excess(files, n) \cup Expired(files, now, a))]_vars

\* C8: when an unlink fails during cleanup, every other marked artifact is
\* still deleted and the run reports the failure.
C8_BestEffortEviction ==
    [][(Ready /\ out'.op = "cleanup" /\ out'.err # <<>>
              /\ out'.err[1].code = "EPERM") =>
          /\ \A f \in Excess(files, out'.maxBackupsPerPage)
                        \cup Expired(files, now, out'.maxBackupAgeDays) :
                f = out'.err[1].file \/ f \notin DOMAIN files'
          /\ ~out'.ok]_vars

\* C9: the page id and timestamp list parses out of an artifact's name are
\* the page id and the ISO-8601 capture timestamp the name was built from.
C9_NameRoundTrip ==
    out.op = "list" =>
        \A i \in 1..Len(out.backups) :
            LET d == out.backups[i]
            IN  /\ d.pageId = files[d.filename].content.page.id
                /\ d.timestamp = toISOString(CapturedAt(files, d.filename))

\* C10: list(pageId) returns the descriptors of that page's artifacts,
\* all of them, strictly ordered by capture time, most recent first.
C10_ListNewestFirst ==
    out.op = "list" =>
        LET names == [i \in 1..Len(out.backups) |-> out.backups[i].filename]
        IN  /\ ArtifactsOf(files, out.pageId) \subseteq Range(names)
            /\ NewestFirst(files, names)

\* the number of levels of blocks in a materialized tree
RECURSIVE Levels(_)
Levels(blocks) ==
    IF blocks = <<>> THEN 0
    ELSE LET below == {IF blocks[i].children = <<>> THEN 0
                       ELSE Levels(blocks[i].children[1]) : i \in 1..Len(blocks)}
         IN  1 + CHOOSE m \in below : \A n \in below : m >= n

\* the number of levels of blocks in a remote tree
RECURSIVE RemoteLevels(_)
RemoteLevels(all) ==
    IF all = <<>> THEN 0
    ELSE LET below == {RemoteLevels(all[i].children) : i \in 1..Len(all)}
         IN  1 + CHOOSE m \in below : \A n \in below : m >= n

\* the ids of the remote blocks at level `level` or deeper, `all` being
\* the blocks at level `at`
RECURSIVE IdsFrom(_, _, _)
IdsFrom(all, at, level) ==
    UNION {(IF at >= level THEN {all[i].id} ELSE {})
              \cup IdsFrom(all[i].children, at + 1, level) : i \in 1..Len(all)}

\* C11: the tree fetchAllBlocks returns for maxDepth = d has at most d
\* levels of blocks, and no children listing is made for a block at level
\* d or deeper.
C11_DepthBound ==
    out.op = "fetch" =>
        /\ Levels(out.blocks) <= out.maxDepth
        /\ \A call \in out.calls :
              call.block_id \notin
                  IdsFrom(remote[out.pageId].blocks, 1, out.maxDepth)
        /\ out.maxDepth = 0 => out.calls = {}

\* a tree deeper than maxDepth = 2 has been materialized down to level 2
C11_Witness ==
    /\ out.op = "fetch" /\ out.maxDepth = 2
    /\ RemoteLevels(remote[out.pageId].blocks) > 2
    /\ Levels(out.blocks) = 2
    /\ Cardinality(out.calls) >= 2

\* no block of a materialized tree has a children field that is present
\* and empty
RECURSIVE NoEmptyChildren(_)
NoEmptyChildren(blocks) ==
    \A i \in 1..Len(blocks) :
        /\ blocks[i].children # << <<>> >>
        /\ blocks[i].children # <<>> => NoEmptyChildren(blocks[i].children[1])

\* C12: in every materialized tree a block that has remote children but
\* sits at the depth limit has no children field; a children field that is
\* present is never empty, since a block without remote children gets none.
C12_AbsentAtDepthLimit ==
    out.op = "fetch" => NoEmptyChildren(out.blocks)

\* the ids of the blocks of a materialized tree
RECURSIVE BlockIds(_)
BlockIds(blocks) ==
    UNION {{blocks[i].id} \cup (IF blocks[i].children = <<>> THEN {}
                                ELSE BlockIds(blocks[i].children[1])) :
              i \in 1..Len(blocks)}

\* the ids of the remote blocks at levels 1..d
IdsDownTo(all, d) == IdsFrom(all, 1, 1) \ IdsFrom(all, 1, d + 1)

\* C13: the snapshot a capture writes holds the page's block tree
\* truncated at the configured depth MAX_BLOCK_DEPTH: the blocks of levels
\* 1..MAX_BLOCK_DEPTH and no others.
C13_CaptureUsesConfiguredDepth ==
    (out.op = "capture" /\ out.ok) =>
        LET name == backupFilename(out.pageId, backupTimestamp(now))
        IN  /\ name \in DOMAIN files
            /\ BlockIds(files[name].content.blocks) =
                  IdsDownTo(remote[out.pageId].blocks, config.MAX_BLOCK_DEPTH)

\* the listings a capture of page p makes when none fails
CaptureCalls(rem, p) ==
    {CallKey(call) : call \in listingCalls(rem[p].blocks, 0, MAX_DEPTH_DEFAULT, 0)}

\* this step is a capture of page p during which a Gateway call fails
FailedCaptureStep(p) ==
    /\ Ready
    /\ out'.op = "capture" /\ out'.pageId = p
    /\ ~out'.retrieved \/ out'.failing \cap CaptureCalls(remote, p) # {}

\* C14: when pages.retrieve or any children listing of a capture fails,
\* backupPage reports an error, returns no tree, writes no artifact and
\* leaves the stored artifacts as they were.
C14_CaptureFailsAsAWhole ==
    [][\A p \in Pages :
         FailedCaptureStep(p) =>
            /\ ~out'.ok
            /\ out'.text = "Failed to backup page"
            /\ out'.blocks = <<>>
            /\ files' = files]_vars

\* a capture has failed on the listing of a nested block
C14_Witness ==
    /\ out.op = "capture" /\ out.retrieved /\ ~out.ok
    /\ \E call \in out.failing :
          call.block_id # 0 /\ call \in CaptureCalls(remote, out.pageId)

\* C15: listPageBackups never returns a descriptor of an artifact whose
\* content is not the complete snapshot, also after a write that failed
\* part-way.
C15_NoPartialArtifactListed ==
    out.op = "list" =>
        \A i \in 1..Len(out.backups) : files[out.backups[i].filename].complete

\* in this step request s completes a capture: backupPage returns to it
CaptureWritten(s) == req[s].backupInfo = <<>> /\ req'[s].backupInfo # <<>>

\* C16: a successful capture never writes to the location of an artifact
\* an earlier successful capture wrote, also when the two run at once, and
\* a stored artifact is never overwritten: while it is in the store its
\* content stays as it was written.
C16_NoOverwrite ==
    [][/\ \A s \in Slots :
            CaptureWritten(s) =>
                \/ req'[s].backupInfo[1] \notin DOMAIN files
                \/ ~files[req'[s].backupInfo[1]].complete
       /\ \A f \in DOMAIN files :
            (files[f].complete /\ f \in DOMAIN files') => files'[f] = files[f]]_vars

\* this step is the first mutating Gateway call of a restore request
RestoreFirstMutation(s) ==
    /\ req'[s].kind = "restore"
    /\ Range(req[s].calls) \cap Mutating = {}
    /\ Range(req'[s].calls) \cap Mutating # {}

\* C17: when restoreFromBackup issues its first mutating call, the store
\* holds an artifact capturing the page as it is at that moment, the state
\* about to be overwritten.
C17_RestorePrecededBySnapshot ==
    [][\A s \in Slots :
         RestoreFirstMutation(s) =>
            \E f \in DOMAIN files' :
                /\ files'[f].complete
                /\ files'[f].content = fetchPageContent(remote, req'[s].pageId)]_vars

\* C18: restore of a location that is not in the store fails with the
\* not-found error, makes no Gateway call and leaves the remote pages as
\* they were.
C18_RestoreNotFound ==
    [][\A s \in Slots :
         (/\ req[s].kind = "idle"
          /\ req'[s].kind = "restore"
          /\ req'[s].backupFilename \notin DOMAIN files) =>
            /\ req'[s].pc = "done"
            /\ req'[s].result[1].isError
            /\ req'[s].result[1].text =
                  "Error managing backups: Failed to restore from backup: Backup file not found"
            /\ req'[s].calls = <<>>
            /\ remote' = remote]_vars

\* a restore of a location that is not in the store has returned, while
\* the store holds another artifact
C18_Witness ==
    \E s \in Slots :
        /\ req[s].kind = "restore" /\ req[s].pc = "done"
        /\ req[s].backupFilename \notin DOMAIN files
        /\ req[s].calls = <<>>
        /\ req[s].result[1].isError
        /\ files # <<>>

\* the rank of a Gateway call among the steps of restore
RestoreRank(name) ==
    CASE name = "pages.update" -> 1
      [] name = "blocks.children.list" -> 2
      [] name = "blocks.delete" -> 3
      [] name = "blocks.children.append" -> 4
      [] OTHER -> 0

\* the calls of a restore so far: the property update, the listing, the
\* deletions, the recreation, each step but the deletions at most once
RestoreInOrder(calls) ==
    /\ \A i \in 1..Len(calls) : RestoreRank(calls[i]) # 0
    /\ calls # <<>> => calls[1] = "pages.update"
    /\ \A i, j \in 1..Len(calls) :
          i < j => \/ RestoreRank(calls[i]) < RestoreRank(calls[j])
                   \/ calls[i] = "blocks.delete" /\ calls[j] = "blocks.delete"

\* slot s runs the continuation of a restore whose awaited call failed
RestoreStepFailed(s) ==
    /\ req[s].kind = "restore" /\ req[s].pc # "done"
    /\ ~req[s].resp.ok
    /\ req'[s] # req[s]

\* C19: restore issues the property update, the listing, the deletions and
\* the recreation in this order; after a failed step it issues no further
\* Gateway call and returns an error, and it returns success only after
\* the recreation succeeded.
C19_RestoreOrderAndAbort ==
    [][\A s \in Slots :
         /\ req'[s].kind = "restore" => RestoreInOrder(req'[s].calls)
         /\ RestoreStepFailed(s) =>
               /\ req'[s].calls = req[s].calls
               /\ req'[s].pc = "done"
               /\ req'[s].result[1].isError
               /\ remote' = remote
         /\ (req'[s].kind = "restore" /\ req'[s].pc = "done"
               /\ ~req'[s].result[1].isError) =>
               /\ req[s].pc = "rs_append" \/ req[s] = req'[s]
               /\ req[s].resp.ok
               /\ req'[s].calls[Len(req'[s].calls)] = "blocks.children.append"]_vars

\* a restore has failed in a deletion, after the property update, the
\* listing and an earlier deletion
C19_Witness ==
    \E s \in Slots :
        /\ req[s].kind = "restore" /\ req[s].pc = "done"
        /\ req[s].result[1].isError
        /\ ~req[s].resp.ok
        /\ req[s].calls = <<"pages.update", "blocks.children.list",
                            "blocks.delete", "blocks.delete">>

\* slot s holds a restore that failed in a Gateway step
RestoreFailedInStep(s) ==
    /\ req[s].kind = "restore" /\ req[s].pc = "done"
    /\ req[s].result[1].isError
    /\ req[s].calls # <<>>
    /\ ~req[s].resp.ok

\* the step a failed restore stopped in: the call it issued last
FailedStep(s) == req[s].calls[Len(req[s].calls)]

\* C20: two restores that failed in different steps with the same
\* underlying error report different failures to the caller.
C20_FailureNamesStep ==
    \A s, t \in Slots :
        (/\ RestoreFailedInStep(s) /\ RestoreFailedInStep(t)
         /\ FailedStep(s) # FailedStep(t)
         /\ req[s].resp.message = req[t].resp.message) =>
            req[s].result[1].text # req[t].result[1].text

\* C21: the children restore sends in blocks.children.append are the
\* snapshot's top-level blocks, one for one and in order, each with the
\* type and payload stored and with neither an id nor a children field;
\* the blocks the Gateway creates from them have no children.
C21_RecreatesTopLevelOnly ==
    \A s \in Slots :
        LET r == req[s]
        IN  (r.kind = "restore" /\ r.appended # <<>>) =>
              LET sent == r.appended[1]
                  blocks == r.snapshot[1].blocks
              IN  /\ Len(sent) = Len(blocks)
                  /\ \A i \in 1..Len(sent) :
                        /\ sent[i].type = blocks[i].type
                        /\ sent[i].text = blocks[i].text
                        /\ "id" \notin DOMAIN sent[i]
                        /\ "children" \notin DOMAIN sent[i]
                  /\ (r.pc = "done" /\ ~r.result[1].isError) =>
                        \A i \in 1..Len(remote[r.pageId].blocks) :
                            remote[r.pageId].blocks[i].id >= FirstNewId =>
                                remote[r.pageId].blocks[i].children = <<>>

\* a restore has succeeded from a snapshot whose first block has children
\* stored below it
C21_Witness ==
    \E s \in Slots :
        /\ req[s].kind = "restore" /\ req[s].pc = "done"
        /\ ~req[s].result[1].isError
        /\ Len(req[s].appended[1]) >= 2
        /\ req[s].snapshot[1].blocks[1].children # <<>>
        /\ req[s].snapshot[1].blocks[1].children[1] # <<>>

\* C22: the block restore sends back for a block the Gateway returned at
\* capture time has the Gateway's type, carries under its type key the
\* payload the Gateway gave, and has no key the Gateway's block lacks.
C22_ShapePreserved ==
    out.op = "recreated" =>
        \A i \in 1..Len(out.results) :
            LET given == out.results[i]
                sent  == out.sent[i]
            IN  /\ sent.type = given.type
                /\ given.type \in DOMAIN sent
                /\ sent[given.type] = given[given.type]
                /\ DOMAIN sent \subseteq DOMAIN given \ {"id", "children"}

\* C27: every materialized block has the id, type, has_children and
\* timestamps of the Gateway's block, whatever its payload holds.
C27_IdentityFieldsKept ==
    out.op \in {"processed", "recreated"} =>
        \A i \in 1..Len(out.results) :
            /\ out.blocks[i].id = out.results[i].id
            /\ out.blocks[i].type = out.results[i].type
            /\ out.blocks[i].has_children = out.results[i].has_children
            /\ out.blocks[i].created_time = out.results[i].created_time
            /\ out.blocks[i].last_edited_time = out.results[i].last_edited_time

\* the top-level blocks of a page are those of a snapshot: as many, with
\* the same type and payload one for one
SameTopLevel(pageBlocks, snapBlocks) ==
    /\ Len(pageBlocks) = Len(snapBlocks)
    /\ \A i \in 1..Len(pageBlocks) :
          /\ i <= Len(snapBlocks)
          /\ pageBlocks[i].type = snapBlocks[i].type
          /\ pageBlocks[i].text = snapBlocks[i].text

\* C23: no request waits for another: a request that awaits a Gateway call
\* can take its next step whatever the other request is doing, and a new
\* restore can start while another request is in flight.
C23_NothingSerializes ==
    \A s \in Slots :
        /\ req[s].pc \notin {"idle", "done"} =>
              ENABLED (NextRace /\ req'[s] # req[s])
        /\ (req[s].kind = "idle" /\ nextId <= MaxId /\ files # <<>>) =>
              ENABLED (NextRace /\ req'[s].kind = "restore")

\* two restores of one page have interleaved and both returned success,
\* every listing having shown all the blocks of the page, and the page's
\* top-level blocks are those of neither snapshot: the block is duplicated
C23_Witness ==
    /\ \A s \in Slots :
          /\ req[s].kind = "restore" /\ req[s].pc = "done"
          /\ ~req[s].result[1].isError
          /\ req[s].pageId = PageAB
          /\ ~SameTopLevel(remote[PageAB].blocks, req[s].snapshot[1].blocks)
    /\ Len(remote[PageAB].blocks) = 2
    /\ remote[PageAB].blocks[1].text = remote[PageAB].blocks[2].text

\* the materialized siblings `blocks` are the remote children `all`, one
\* for one and in order, and so are the children materialized below them
RECURSIVE SiblingsKept(_, _)
SiblingsKept(blocks, all) ==
    /\ Len(blocks) = Len(all)
    /\ \A i \in 1..Len(blocks) :
          /\ i <= Len(all)
          /\ blocks[i].id = all[i].id
          /\ (blocks[i].children # <<>> /\ blocks[i].children[1] # <<>>) =>
                SiblingsKept(blocks[i].children[1], all[i].children)

\* the listing calls made for block b (0: the page)
CallsFor(calls, b) == {call \in calls : call.block_id = b}

\* C24: for every block it lists, fetchAllBlocks follows the cursor until
\* has_more is false, one call per listing page, and the siblings it
\* returns are the remote children, each once and in the Gateway's order.
C24_DrainsInOrder ==
    (out.op = "fetch" /\ out.maxDepth >= 1) =>
        /\ SiblingsKept(out.blocks, remote[out.pageId].blocks)
        /\ \A call \in out.calls :
              \/ call.start_cursor = 0
              \/ \E prev \in CallsFor(out.calls, call.block_id) :
                    prev.start_cursor + GatewayPageLimit = call.start_cursor
                    \/ (prev.start_cursor = 0
                          /\ call.start_cursor = GatewayPageLimit + 1)

\* a materialization has listed blocks that take more than one listing
\* page, at the top level and below it
C24_Witness ==
    /\ out.op = "fetch"
    /\ Len(out.blocks) > GatewayPageLimit
    /\ \E i \in 1..Len(out.blocks) :
          /\ out.blocks[i].children # <<>>
          /\ Len(out.blocks[i].children[1]) > GatewayPageLimit
    /\ Cardinality(CallsFor(out.calls, 0)) >= 2

\* C25: the loop listing the children of a block makes a bounded number
\* of Gateway calls, at most one per child and one more, whatever the
\* Gateway answers, and never lists from the same place twice.
C25_DrainTerminates ==
    out.op = "drain" =>
        /\ out.ncalls <= Len(remote[out.pageId].blocks) + 1
        /\ (out.hasMore /\ out.ncalls > 0) => out.cursor # 0

\* the file does not parse, or the object in it lacks the page record,
\* the properties or the blocks list
Malformed(file) ==
    \/ ~file.complete
    \/ "page" \notin DOMAIN file.content
    \/ "properties" \notin DOMAIN file.content.page
    \/ "blocks" \notin DOMAIN file.content

\* C26: a restore of a malformed artifact issues no property update and no
\* block deletion, leaves the remote pages as they were and returns an
\* error.
C26_MalformedRestoreChangesNothing ==
    [][\A s \in Slots :
         (/\ req'[s].kind = "restore"
          /\ req'[s].backupFilename \in DOMAIN files
          /\ Malformed(files[req'[s].backupFilename])) =>
            /\ Range(req'[s].calls) \cap Mutating = {}
            /\ remote' = remote
            /\ req'[s].pc = "done" => req'[s].result[1].isError]_vars

\* C28: list(p) returns only artifacts captured for page p, also when
\* another page's id is p followed by an underscore and more.
C28_ListOnlyOwnArtifacts ==
    out.op = "list" =>
        \A i \in 1..Len(out.backups) :
            files[out.backups[i].filename].content.page.id = out.pageId

\* C29: a cleanup run with maxBackupsPerPage >= 1, whether or not an
\* unlink fails in it, leaves the most recent artifact of every page in
\* the store, unchanged, unless its age exceeds the age limit; this holds
\* in whatever state of the store the run starts.
C29_MostRecentSurvives ==
    [][(Ready /\ out'.op = "cleanup" /\ out'.maxBackupsPerPage >= 1) =>
          \A p \in Pages :
              \A f \in MostRecent(files, p, 1) :
                  now - CapturedAt(files, f) <= out'.maxBackupAgeDays * DayMs =>
                      /\ f \in DOMAIN files'
                      /\ files'[f] = files[f]]_vars

\* a cleanup keeping one artifact per page for one day has deleted an
\* artifact and left one of each page
C29_Witness ==
    /\ out.op = "cleanup"
    /\ out.maxBackupsPerPage = 1 /\ out.maxBackupAgeDays = 1
    /\ Len(out.log) >= 1
    /\ \A p \in Pages : ArtifactsOf(files, p) # {}

\* slot s holds an update-page request that carries blocks
HasContent(r) == r.content # <<>> /\ Len(r.content[1]) > 0

\* C30: an update-page request without content, or with an empty list,
\* never changes the page's blocks; one with content that returns success
\* leaves the page with the validated blocks given, one for one and in
\* order, as its only top-level blocks, however many it had before.
C30_UpdateReplacesContent ==
    [][\A s \in Slots :
         (req'[s].kind = "update" /\ req'[s] # req[s]) =>
            LET r == req'[s]
                page == remote'[r.pageId]
            IN  /\ ~HasContent(r) => page.blocks = remote[r.pageId].blocks
                /\ (HasContent(r) /\ r.pc = "done" /\ ~r.result[1].isError) =>
                      SameTopLevel(page.blocks, validateBlocks(r.content[1]))]_vars

====
